---- MODULE Spec2Model ----
(***************************************************************************)
(* DashGit: the two platform adapters (GitHub, GitLab), the aggregator     *)
(* (App.fetchData) and the classifier (App.sections), as a state machine.  *)
(*                                                                         *)
(* The platforms are the environment: each holds a list of open pull /     *)
(* merge requests (ghServer, glServer), fixed for a behaviour, and answers *)
(* a query either with the matching raw nodes or with a failure.           *)
(* Rendering, avatars, titles, urls and diff sizes are not modelled.       *)
(***************************************************************************)
EXTENDS Integers, Sequences, FiniteSets, TLC

VARIABLES
    settings,        \* App.tsx useState<AppSettings>: which credentials are non-empty
    isSettingsOpen,  \* App.tsx useState(false)
    data,            \* App.tsx useState<UnifiedPullRequest[]>([])
    loading,         \* App.tsx useState(false)
    error,           \* App.tsx useState<string | null>(null)
    mounted,         \* whether the initial useEffect has run
    started,         \* how many times fetchData has been called
    cycles,          \* the calls of fetchData that matter still: those with a promise
                     \* in flight, and the latest one
    ghServer,        \* environment: the open PRs on GitHub
    glServer         \* environment: the open MRs on GitLab

vars == <<settings, isSettingsOpen, data, loading, error, mounted, started, cycles,
         ghServer, glServer>>

-----------------------------------------------------------------------------
(* Bounds of the model *)

\* fetchData is called at most this many times in a behaviour
MaxCycles == 2
\* updatedAt / submittedAt timestamps are 1..MaxTime
MaxTime == 2
\* the GitLab server holds at most this many open merge requests
MaxGitlabMRs == 2
\* the GitHub server holds at most this many open pull requests
MaxGithubPRs == 1
\* a pull request has at most this many reviews
MaxReviews == 2
\* a merge request has at most this many discussions
MaxDiscussions == 2

-----------------------------------------------------------------------------
(* Generic helpers *)

Null == "<null>"

Range(s) == {s[i] : i \in 1..Len(s)}

RECURSIVE FoldLeft(_, _, _)
\* Array.prototype.forEach with an accumulator: op applied left to right
FoldLeft(op(_, _), acc, s) ==
    IF s = <<>> THEN acc ELSE FoldLeft(op, op(acc, Head(s)), Tail(s))

RECURSIVE Flat(_)
\* Array.prototype.flat (depth 1)
Flat(ss) == IF ss = <<>> THEN <<>> ELSE Head(ss) \o Flat(Tail(ss))

\* all sequences over S of length at most n
RECURSIVE SeqsUpTo(_, _)
SeqsUpTo(S, n) ==
    IF n = 0 THEN {<<>>}
    ELSE LET shorter == SeqsUpTo(S, n - 1)
         IN  shorter \cup {Append(s, x) : s \in shorter, x \in S}

-----------------------------------------------------------------------------
(* Strings that the code inspects character by character are sequences of   *)
(* one-character strings.                                                  *)

UpperChars == <<"A","B","C","D","E","F","G","H","I","J","K","L","M",
                "N","O","P","Q","R","S","T","U","V","W","X","Y","Z">>
LowerChars == <<"a","b","c","d","e","f","g","h","i","j","k","l","m",
                "n","o","p","q","r","s","t","u","v","w","x","y","z">>

IndexIn(c, table) == CHOOSE i \in 1..Len(table) : table[i] = c

LowerChar(c) == IF c \in Range(UpperChars) THEN LowerChars[IndexIn(c, UpperChars)] ELSE c
UpperChar(c) == IF c \in Range(LowerChars) THEN UpperChars[IndexIn(c, LowerChars)] ELSE c

\* String.prototype.toLowerCase / toUpperCase
toLowerCase(s) == [i \in 1..Len(s) |-> LowerChar(s[i])]
toUpperCase(s) == [i \in 1..Len(s) |-> UpperChar(s[i])]

\* String.prototype.includes
includes(s, sub) ==
    \E i \in 1..(Len(s) - Len(sub) + 1) : SubSeq(s, i, i + Len(sub) - 1) = sub

-----------------------------------------------------------------------------
(* The unified entity (types.ts) is a record                                *)
(*   [id, uniqueKey, source, updatedAt, author, reviewers, pipelineStatus,  *)
(*    commentStats, approvals, isAuthor, isReviewer, myReviewState,         *)
(*    overallReviewState]                                                   *)
(* with reviewers a sequence of [username, status].                         *)

ReviewState == {"approved", "changes_requested", "pending", "commented"}
PipelineStatus == {"success", "failed", "warning", "pending"}

\* the user whose credentials are configured, on both platforms
Me == "me"

-----------------------------------------------------------------------------
(* GitLab adapter: src/src/adapters/gitlab.ts                               *)

s_warn == <<"w","a","r","n">>
s_with_warnings == <<"w","i","t","h"," ","w","a","r","n","i","n","g","s">>
s_warning == <<"w","a","r","n","i","n","g">>
s_warnings == <<"w","a","r","n","i","n","g","s">>
s_with_dash_warnings == <<"w","i","t","h","-","w","a","r","n","i","n","g","s">>
s_with_underscore_warnings == <<"w","i","t","h","_","w","a","r","n","i","n","g","s">>
s_success == <<"s","u","c","c","e","s","s">>
s_passed == <<"p","a","s","s","e","d">>
s_failed == <<"f","a","i","l","e","d">>
s_failure == <<"f","a","i","l","u","r","e">>
s_running == <<"r","u","n","n","i","n","g">>
s_pending == <<"p","e","n","d","i","n","g">>
s_created == <<"c","r","e","a","t","e","d">>
s_manual == <<"m","a","n","u","a","l">>

\* mapPipelineStatus reading the status before the detailed label
mapPipelineStatus_StatusFirst(status, detailedLabel) ==
    IF toLowerCase(status) = s_success \/ toLowerCase(status) = s_passed THEN "success"
    ELSE IF toLowerCase(status) = s_failed \/ toLowerCase(status) = s_failure THEN "failed"
    ELSE IF includes(toLowerCase(detailedLabel), s_warn) \/ includes(toLowerCase(status), s_warn)
         THEN "warning"
    ELSE "pending"

\* mapPipelineStatus(status, detailedLabel); an absent argument is the empty string
mapPipelineStatus(status, detailedLabel) ==
    LET label == toLowerCase(detailedLabel)
        s == toLowerCase(status)
    IN  IF label # <<>> /\ (includes(label, s_warn) \/ includes(label, s_with_warnings)
                            \/ includes(label, s_warning) \/ includes(label, s_warnings))
        THEN "warning"
        ELSE IF s # <<>> /\ (includes(s, s_warn) \/ includes(s, s_with_dash_warnings)
                             \/ includes(s, s_with_underscore_warnings))
        THEN "warning"
        ELSE IF s = s_success \/ s = s_passed THEN "success"
        ELSE IF s = s_failed \/ s = s_failure THEN "failed"
        ELSE IF s = s_running \/ s = s_pending \/ s = s_created \/ s = s_manual THEN "pending"
        ELSE "pending"

\* GitlabReviewerStatus with the approvers list overriding every status
GitlabReviewerStatus_ApproversOverride(r, approvers) ==
    IF r.username \in approvers THEN "approved"
    ELSE IF r.reviewState = "APPROVED" THEN "approved"
    ELSE IF r.reviewState = "REQUESTED_CHANGES" THEN "changes_requested"
    ELSE IF r.reviewState = "REVIEWED" THEN "commented"
    ELSE "pending"

\* the status of one raw reviewer node r, given the set of approvers
GitlabReviewerStatus(r, approvers) ==
    LET glState == r.reviewState
        status == IF glState = "APPROVED" THEN "approved"
                  ELSE IF glState = "REQUESTED_CHANGES" THEN "changes_requested"
                  ELSE IF glState = "REVIEWED" THEN "commented"
                  ELSE IF glState = "UNREVIEWED" THEN "pending"
                  ELSE "pending"
    IN  IF status = "pending" /\ r.username \in approvers THEN "approved" ELSE status

\* CountDiscussion counting every discussion, as userNotesCount does
CountDiscussion_AllNotes(acc, d) ==
    [total |-> acc.total + 1,
     resolved |-> IF d.resolved THEN acc.resolved + 1 ELSE acc.resolved]

\* the forEach over mr.discussions.nodes: acc is [total, resolved]
CountDiscussion(acc, d) ==
    IF d.resolvable
    THEN [total |-> acc.total + 1,
          resolved |-> IF d.resolved THEN acc.resolved + 1 ELSE acc.resolved]
    ELSE acc

\* GitlabOverallReviewState without the test that approvals are required
GitlabOverallReviewState_NoRequired(hasRequestedChanges, givenApprovals, requiredApprovals) ==
    IF hasRequestedChanges THEN "changes_requested"
    ELSE IF givenApprovals >= requiredApprovals THEN "approved"
    ELSE "pending"

\* overallReviewState of a merge request
GitlabOverallReviewState(hasRequestedChanges, givenApprovals, requiredApprovals) ==
    IF hasRequestedChanges THEN "changes_requested"
    ELSE IF requiredApprovals > 0 /\ givenApprovals >= requiredApprovals THEN "approved"
    ELSE "pending"

\* `${mr.project.path}#${mr.iid}`
GitlabKey(mr) == <<mr.project.path, "#", ToString(mr.iid)>>

mapGitlabToUnified(mr, currentUsername) ==
    LET approvers == Range(mr.approvedBy)
        reviewers == [i \in 1..Len(mr.reviewers) |->
                        [username |-> mr.reviewers[i].username,
                         status |-> GitlabReviewerStatus(mr.reviewers[i], approvers)]]
        mine == {i \in 1..Len(reviewers) : reviewers[i].username = currentUsername}
        \* reviewers.find: the first entry of the current user
        myEntryStatus == IF mine = {} THEN "pending"
                         ELSE reviewers[CHOOSE i \in mine : \A j \in mine : i <= j].status
        myReviewState == IF myEntryStatus = "pending" /\ currentUsername \in approvers
                         THEN "approved" ELSE myEntryStatus
        givenApprovals == Cardinality(approvers)
        requiredApprovals == mr.approvalsRequired
        hasRequestedChanges == \E i \in 1..Len(reviewers) : reviewers[i].status = "changes_requested"
        overallReviewState ==
            GitlabOverallReviewState(hasRequestedChanges, givenApprovals, requiredApprovals)
        stats == FoldLeft(CountDiscussion, [total |-> 0, resolved |-> 0], mr.discussions)
    IN  [id |-> ToString(mr.iid),
         uniqueKey |-> GitlabKey(mr),
         source |-> "gitlab",
         updatedAt |-> mr.updatedAt,
         author |-> IF mr.author = Null THEN "unknown" ELSE mr.author,
         reviewers |-> reviewers,
         pipelineStatus |-> mapPipelineStatus(mr.headPipeline.status, mr.headPipeline.label),
         commentStats |-> [total |-> stats.total, resolved |-> stats.resolved],
         approvals |-> [given |-> givenApprovals, required |-> requiredApprovals],
         isAuthor |-> mr.author = currentUsername,
         isReviewer |-> \E i \in 1..Len(reviewers) : reviewers[i].username = currentUsername,
         myReviewState |-> myReviewState,
         overallReviewState |-> overallReviewState]

\* MapSet on a list instead of a Map: every node is kept
MapSet_Append(mrMap, mr) == Append(mrMap, [key |-> <<mr.project.path, "#", ToString(mr.iid)>>, mr |-> mr])

\* MapSet keeping the node a key was first set to
MapSet_FirstWins(mrMap, mr) ==
    IF \E i \in 1..Len(mrMap) : mrMap[i].key = <<mr.project.path, "#", ToString(mr.iid)>>
    THEN mrMap
    ELSE Append(mrMap, [key |-> <<mr.project.path, "#", ToString(mr.iid)>>, mr |-> mr])

\* mrMap.set(key, mr) on a Map kept as a sequence of [key, mr] in insertion order:
\* an existing key keeps its position and takes the new value
MapSet(mrMap, mr) ==
    LET key == GitlabKey(mr)
    IN  IF \E i \in 1..Len(mrMap) : mrMap[i].key = key
        THEN [i \in 1..Len(mrMap) |-> IF mrMap[i].key = key THEN [key |-> key, mr |-> mr]
                                      ELSE mrMap[i]]
        ELSE Append(mrMap, [key |-> key, mr |-> mr])

\* addList(list); a missing list adds nothing, as an empty one: it is the empty sequence
addList(mrMap, list) == FoldLeft(MapSet, mrMap, list)

\* the body of the try block; resp is what the endpoint answered:
\*   network_error  the fetch rejects
\*   bad_json       response.json() rejects
\*   errors         the body has a GraphQL errors array
\*   no_user        the body has no data.currentUser (also a JSON error body)
\*   ok             data.currentUser with its three result sets
GitlabTry(resp) ==
    IF resp.kind \in {"network_error", "bad_json", "errors"}
    THEN [threw |-> TRUE, value |-> <<>>]
    ELSE IF resp.kind = "no_user" THEN [threw |-> FALSE, value |-> <<>>]
    ELSE LET m1 == addList(<<>>, resp.authored)
             m2 == addList(m1, resp.assigned)
             m3 == addList(m2, resp.reviewRequested)
         IN  [threw |-> FALSE,
              value |-> [i \in 1..Len(m3) |-> mapGitlabToUnified(m3[i].mr, resp.username)]]

\* GitlabCatch rethrowing what it caught
GitlabCatch_Rethrow(r) == [status |-> "rejected", value |-> <<>>, message |-> <<"GitLab Fetch Error">>]

\* catch (error) { console.error(...); return []; }
GitlabCatch(r) == [status |-> "resolved", value |-> <<>>, message |-> <<>>]

\* fetchGitlabMRs: the settled promise, [status, value, message]
fetchGitlabMRs(resp) ==
    LET r == GitlabTry(resp)
    IN  IF r.threw THEN GitlabCatch(r)
        ELSE [status |-> "resolved", value |-> r.value, message |-> <<>>]

-----------------------------------------------------------------------------
(* GitHub adapter: src/unnamed/part_002 (the latest adapters/github.ts)     *)

s_WARN == <<"W","A","R","N">>
s_NEUTRAL == <<"N","E","U","T","R","A","L">>
s_SUCCESS == <<"S","U","C","C","E","S","S">>
s_FAILURE == <<"F","A","I","L","U","R","E">>
s_ERROR == <<"E","R","R","O","R">>
s_PENDING == <<"P","E","N","D","I","N","G">>
s_RUNNING == <<"R","U","N","N","I","N","G">>

\* (r.state || '').toUpperCase() on the review states the API can send
ReviewStateUpper(state) ==
    CASE state = Null -> ""
      [] state = "approved" -> "APPROVED"
      [] state = "changes_requested" -> "CHANGES_REQUESTED"
      [] state = "commented" -> "COMMENTED"
      [] state = "dismissed" -> "DISMISSED"
      [] OTHER -> state

RECURSIVE InsertBySubmittedAt(_, _)
\* puts r after every element that is not later than it (the sort is stable)
InsertBySubmittedAt(sorted, r) ==
    IF sorted = <<>> THEN <<r>>
    ELSE IF Head(sorted).submittedAt <= r.submittedAt
         THEN <<Head(sorted)>> \o InsertBySubmittedAt(Tail(sorted), r)
         ELSE <<r>> \o sorted

\* SortBySubmittedAt leaving the nodes in the order they arrived
SortBySubmittedAt_ArrivalOrder(reviewNodes) == reviewNodes

\* reviewNodes.sort((a, b) => a.submittedAt - b.submittedAt)
SortBySubmittedAt(reviewNodes) == FoldLeft(InsertBySubmittedAt, <<>>, reviewNodes)

\* ReplayReview leaving the binding state as it is on a dismissed review
ReplayReview_IgnoreDismissed(acc, r) ==
    IF r.author = Null THEN acc
    ELSE IF r.state = "COMMENTED" THEN [acc EXCEPT !.commented = @ \cup {r.author}]
    ELSE IF r.state = "APPROVED" \/ r.state = "CHANGES_REQUESTED"
         THEN [acc EXCEPT !.latest = [x \in (DOMAIN acc.latest) \cup {r.author} |->
                                         IF x = r.author THEN r.state ELSE acc.latest[x]]]
    ELSE acc

\* one step of the replay: acc is [latest, commented], latest a function login -> state
\* (Null for a cleared state), commented a set of logins
ReplayReview(acc, r) ==
    LET login == r.author
        state == ReviewStateUpper(r.state)
        put(v) == [x \in (DOMAIN acc.latest) \cup {login} |->
                     IF x = login THEN v ELSE acc.latest[x]]
    IN  IF login = Null THEN acc
        ELSE IF state = "COMMENTED"
             THEN [acc EXCEPT !.commented = @ \cup {login}]
        ELSE IF state = "APPROVED" \/ state = "CHANGES_REQUESTED"
             THEN [acc EXCEPT !.latest = put(state)]
        ELSE IF state = "DISMISSED"
             THEN [acc EXCEPT !.latest = put(Null)]
        ELSE acc

\* Set.add on a Set kept as a sequence in insertion order; a falsy login adds nothing
AddLogin(seen, login) ==
    IF login = Null \/ login \in Range(seen) THEN seen ELSE Append(seen, login)

AddReviewAuthor(seen, r) == AddLogin(seen, r.author)

\* GithubReviewerStatus with a request for review not clearing requested changes
GithubReviewerStatus_KeepChanges(username, approvers, changesRequested, requestedReviewers, commentedLogins) ==
    IF username \in approvers THEN "approved"
    ELSE IF username \in changesRequested THEN "changes_requested"
    ELSE IF username \in Range(requestedReviewers) THEN "pending"
    ELSE IF username \in commentedLogins THEN "commented"
    ELSE "pending"

\* GithubReviewerStatus with a request for review clearing an approval too
GithubReviewerStatus_RequestFirst(username, approvers, changesRequested, requestedReviewers, commentedLogins) ==
    IF username \in Range(requestedReviewers) THEN "pending"
    ELSE IF username \in approvers THEN "approved"
    ELSE IF username \in changesRequested THEN "changes_requested"
    ELSE IF username \in commentedLogins THEN "commented"
    ELSE "pending"

\* the status of the reviewer with this username
GithubReviewerStatus(username, approvers, changesRequested, requestedReviewers, commentedLogins) ==
    LET isRequested == username \in Range(requestedReviewers)
    IN  IF username \in approvers THEN "approved"
        ELSE IF username \in changesRequested
             THEN (IF isRequested THEN "pending" ELSE "changes_requested")
        ELSE IF isRequested THEN "pending"
        ELSE IF username \in commentedLogins THEN "commented"
        ELSE "pending"

\* 5. Determine Pipeline Status, from the rollup state ('' when there is none)
GithubPipelineStatus(statusCommit) ==
    LET s == toUpperCase(statusCommit)
    IN  IF includes(s, s_WARN) \/ s = s_NEUTRAL THEN "warning"
        ELSE IF s = s_SUCCESS THEN "success"
        ELSE IF s = s_FAILURE \/ s = s_ERROR THEN "failed"
        ELSE IF s = s_PENDING \/ s = s_RUNNING THEN "pending"
        ELSE "pending"

\* GithubMyReviewState with the binding state looked at before the request
GithubMyReviewState_StaleFirst(currentUsername, requestedReviewers, latest, commentedLogins) ==
    IF currentUsername \in DOMAIN latest /\ latest[currentUsername] = "APPROVED" THEN "approved"
    ELSE IF currentUsername \in DOMAIN latest /\ latest[currentUsername] = "CHANGES_REQUESTED"
         THEN "changes_requested"
    ELSE IF currentUsername \in Range(requestedReviewers) THEN "pending"
    ELSE IF currentUsername \in commentedLogins THEN "commented"
    ELSE "pending"

\* GithubMyReviewState not looking at the requested reviewers
GithubMyReviewState_IgnoreRequest(currentUsername, requestedReviewers, latest, commentedLogins) ==
    IF currentUsername \in DOMAIN latest /\ latest[currentUsername] = "APPROVED" THEN "approved"
    ELSE IF currentUsername \in DOMAIN latest /\ latest[currentUsername] = "CHANGES_REQUESTED"
         THEN "changes_requested"
    ELSE IF currentUsername \in commentedLogins THEN "commented"
    ELSE "pending"

\* 6. Determine My Review State
GithubMyReviewState(currentUsername, requestedReviewers, latest, commentedLogins) ==
    LET amIRequested == currentUsername \in Range(requestedReviewers)
        myState == IF currentUsername \in DOMAIN latest THEN latest[currentUsername] ELSE Null
    IN  IF amIRequested THEN "pending"
        ELSE IF myState = "APPROVED" THEN "approved"
        ELSE IF myState = "CHANGES_REQUESTED" THEN "changes_requested"
        ELSE IF currentUsername \in commentedLogins THEN "commented"
        ELSE "pending"

\* GithubOverallReviewState taking an approver for an approval of the platform
GithubOverallReviewState_CountApprovers(reviewDecision, approvers, changesRequested) ==
    IF reviewDecision = "APPROVED" THEN "approved"
    ELSE IF reviewDecision = "CHANGES_REQUESTED" THEN "changes_requested"
    ELSE IF changesRequested # {} THEN "changes_requested"
    ELSE IF approvers # {} THEN "approved"
    ELSE "pending"

\* 7. Overall Review State
GithubOverallReviewState(reviewDecision, approvers, changesRequested) ==
    IF reviewDecision = "APPROVED" THEN "approved"
    ELSE IF reviewDecision = "CHANGES_REQUESTED" THEN "changes_requested"
    ELSE IF changesRequested # {} THEN "changes_requested"
    ELSE IF approvers # {} /\ reviewDecision = "APPROVED" THEN "approved"
    ELSE "pending"

\* `${pr.repository.owner.login}/${pr.repository.name}#${pr.number}`
GithubKey(pr) == <<pr.owner, "/", pr.repo, "#", ToString(pr.number)>>

mapGithubToUnified(pr, currentUsername) ==
    LET isAuthor == pr.author = currentUsername
        \* .filter(Boolean): a request for a team has no requestedReviewer login
        requestedReviewers == SelectSeq(pr.reviewRequests, LAMBDA x : x # Null)
        reviewNodes == SortBySubmittedAt(pr.reviews)
        commentNodes == pr.comments
        replay == FoldLeft(ReplayReview, [latest |-> <<>>, commented |-> {}], reviewNodes)
        latestStateByLogin == replay.latest
        commentedLogins == replay.commented \cup (Range(commentNodes) \ {Null})
        approvers == {l \in DOMAIN latestStateByLogin : latestStateByLogin[l] = "APPROVED"}
        changesRequested ==
            {l \in DOMAIN latestStateByLogin : latestStateByLogin[l] = "CHANGES_REQUESTED"}
        allReviewerUsernames ==
            FoldLeft(AddLogin,
                FoldLeft(AddReviewAuthor,
                    FoldLeft(AddLogin, <<>>, requestedReviewers),
                    reviewNodes),
                commentNodes)
        reviewers == [i \in 1..Len(allReviewerUsernames) |->
                        [username |-> allReviewerUsernames[i],
                         status |-> GithubReviewerStatus(allReviewerUsernames[i], approvers,
                                        changesRequested, requestedReviewers, commentedLogins)]]
    IN  [id |-> ToString(pr.number),
         uniqueKey |-> GithubKey(pr),
         source |-> "github",
         updatedAt |-> pr.updatedAt,
         author |-> pr.author,
         reviewers |-> reviewers,
         pipelineStatus |-> GithubPipelineStatus(pr.rollup),
         commentStats |-> [total |-> pr.totalCommentsCount, resolved |-> 0],
         approvals |-> [given |-> Cardinality(approvers), required |-> 1],
         isAuthor |-> isAuthor,
         isReviewer |-> currentUsername \in Range(allReviewerUsernames),
         myReviewState |-> GithubMyReviewState(currentUsername, requestedReviewers,
                                               latestStateByLogin, commentedLogins),
         overallReviewState |->
             GithubOverallReviewState(pr.reviewDecision, approvers, changesRequested)]

\* what the rejected promise carries as e.message, per kind of failure:
\*   network_error  fetch rejects
\*   bad_json       response.json() rejects
\*   errors         the body has a GraphQL errors array
\*   no_data        the body has no data (json.data.search throws)
GithubFailureMessage(kind) ==
    CASE kind = "network_error" -> <<"Failed to fetch">>
      [] kind = "bad_json" -> <<"Unexpected token < in JSON">>
      [] kind = "errors" -> <<"Failed to fetch from GitHub">>
      [] kind = "no_data" -> <<"Cannot read properties of undefined">>

\* fetchGithubPRs: the settled promise, [status, value, message]; a message is a
\* sequence of the pieces it is concatenated from, <<>> where there is none
fetchGithubPRs(resp, username) ==
    IF resp.kind # "ok"
    THEN [status |-> "rejected", value |-> <<>>, message |-> GithubFailureMessage(resp.kind)]
    ELSE IF \E i \in 1..Len(resp.nodes) : resp.nodes[i].author = Null
    \* pr.author.login of a PR whose author is gone throws inside the map
    THEN [status |-> "rejected", value |-> <<>>, message |-> <<"Cannot read properties of null">>]
    ELSE [status |-> "resolved",
          value |-> [i \in 1..Len(resp.nodes) |-> mapGithubToUnified(resp.nodes[i], username)],
          message |-> <<>>]

-----------------------------------------------------------------------------
(* Classifier: src/src/App.tsx, sections                                    *)

EmptyBuckets ==
    [returned |-> <<>>, reviewRequested |-> <<>>, yourPRs |-> <<>>,
     waitingForApprovals |-> <<>>, approvedByYou |-> <<>>, approvedByOthers |-> <<>>]

Push(buckets, name, pr) == [buckets EXCEPT ![name] = Append(@, pr)]

IsReturned(pr) ==
    pr.isAuthor /\ (pr.overallReviewState = "changes_requested" \/ pr.pipelineStatus = "failed")

\* ClassifyOne with the return of the first rule left out
ClassifyOne_NoReturn(buckets, pr) ==
    LET b1 == IF IsReturned(pr) THEN Push(buckets, "returned", pr) ELSE buckets
    IN  IF pr.isReviewer /\ pr.myReviewState = "pending" THEN Push(b1, "reviewRequested", pr)
        ELSE IF pr.isReviewer /\ pr.myReviewState = "approved" THEN Push(b1, "approvedByYou", pr)
        ELSE IF pr.isAuthor /\ pr.overallReviewState = "approved"
        THEN Push(b1, "approvedByOthers", pr)
        ELSE IF pr.isAuthor /\ pr.approvals.given < pr.approvals.required
        THEN Push(b1, "waitingForApprovals", pr)
        ELSE IF pr.isAuthor THEN Push(b1, "yourPRs", pr)
        ELSE b1

\* ClassifyOne with the author rules moved before the reviewer rules
ClassifyOne_AuthorFirst(buckets, pr) ==
    IF IsReturned(pr) THEN Push(buckets, "returned", pr)
    ELSE IF pr.isAuthor /\ pr.overallReviewState = "approved"
    THEN Push(buckets, "approvedByOthers", pr)
    ELSE IF pr.isAuthor /\ pr.approvals.given < pr.approvals.required
    THEN Push(buckets, "waitingForApprovals", pr)
    ELSE IF pr.isAuthor THEN Push(buckets, "yourPRs", pr)
    ELSE IF pr.isReviewer /\ pr.myReviewState = "pending"
    THEN Push(buckets, "reviewRequested", pr)
    ELSE IF pr.isReviewer /\ pr.myReviewState = "approved"
    THEN Push(buckets, "approvedByYou", pr)
    ELSE buckets

\* ClassifyOne with the review-requested rule not looking at myReviewState
ClassifyOne_ReviewerAnyState(buckets, pr) ==
    IF IsReturned(pr) THEN Push(buckets, "returned", pr)
    ELSE IF pr.isReviewer THEN Push(buckets, "reviewRequested", pr)
    ELSE IF pr.isAuthor /\ pr.overallReviewState = "approved"
    THEN Push(buckets, "approvedByOthers", pr)
    ELSE IF pr.isAuthor /\ pr.approvals.given < pr.approvals.required
    THEN Push(buckets, "waitingForApprovals", pr)
    ELSE IF pr.isAuthor THEN Push(buckets, "yourPRs", pr)
    ELSE buckets

\* ClassifyOne with the first rule looking at the pipeline only
ClassifyOne_FailedOnly(buckets, pr) ==
    IF pr.isAuthor /\ pr.pipelineStatus = "failed" THEN Push(buckets, "returned", pr)
    ELSE IF pr.isReviewer /\ pr.myReviewState = "pending"
    THEN Push(buckets, "reviewRequested", pr)
    ELSE IF pr.isReviewer /\ pr.myReviewState = "approved"
    THEN Push(buckets, "approvedByYou", pr)
    ELSE IF pr.isAuthor /\ pr.overallReviewState = "approved"
    THEN Push(buckets, "approvedByOthers", pr)
    ELSE IF pr.isAuthor /\ pr.approvals.given < pr.approvals.required
    THEN Push(buckets, "waitingForApprovals", pr)
    ELSE IF pr.isAuthor THEN Push(buckets, "yourPRs", pr)
    ELSE buckets

\* ClassifyOne with the default rule before the waiting-for-approvals rule
ClassifyOne_DefaultFirst(buckets, pr) ==
    IF IsReturned(pr) THEN Push(buckets, "returned", pr)
    ELSE IF pr.isReviewer /\ pr.myReviewState = "pending"
    THEN Push(buckets, "reviewRequested", pr)
    ELSE IF pr.isReviewer /\ pr.myReviewState = "approved"
    THEN Push(buckets, "approvedByYou", pr)
    ELSE IF pr.isAuthor /\ pr.overallReviewState = "approved"
    THEN Push(buckets, "approvedByOthers", pr)
    ELSE IF pr.isAuthor THEN Push(buckets, "yourPRs", pr)
    ELSE buckets

\* the body of data.forEach(pr => ...): the first rule that matches pushes and returns
ClassifyOne(buckets, pr) ==
    IF pr.isAuthor /\ (pr.overallReviewState = "changes_requested" \/ pr.pipelineStatus = "failed")
    THEN Push(buckets, "returned", pr)
    ELSE IF pr.isReviewer /\ pr.myReviewState = "pending"
    THEN Push(buckets, "reviewRequested", pr)
    ELSE IF pr.isReviewer /\ pr.myReviewState = "approved"
    THEN Push(buckets, "approvedByYou", pr)
    ELSE IF pr.isAuthor /\ pr.overallReviewState = "approved"
    THEN Push(buckets, "approvedByOthers", pr)
    ELSE IF pr.isAuthor /\ pr.approvals.given < pr.approvals.required
    THEN Push(buckets, "waitingForApprovals", pr)
    ELSE IF pr.isAuthor
    THEN Push(buckets, "yourPRs", pr)
    ELSE buckets

\* useMemo(() => {...}, [data])
sections(d) == FoldLeft(ClassifyOne, EmptyBuckets, d)

-----------------------------------------------------------------------------
(* Aggregator: src/src/App.tsx, fetchData and its callers                   *)

RECURSIVE InsertByUpdatedAtDesc(_, _)
\* puts pr after every element that is not older than it (the sort is stable)
InsertByUpdatedAtDesc(sorted, pr) ==
    IF sorted = <<>> THEN <<pr>>
    ELSE IF Head(sorted).updatedAt >= pr.updatedAt
         THEN <<Head(sorted)>> \o InsertByUpdatedAtDesc(Tail(sorted), pr)
         ELSE <<pr>> \o sorted

\* Combine without the sort
Combine_NoSort(results) == Flat(results)

\* results.flat().sort((a, b) => b.updatedAt.getTime() - a.updatedAt.getTime())
Combine(results) == FoldLeft(InsertByUpdatedAtDesc, <<>>, Flat(results))

NotCalled == [status |-> "none", value |-> <<>>, message |-> <<>>]
Pending == [status |-> "pending", value |-> <<>>, message |-> <<>>]

UseGithub(s) == s.githubToken /\ s.githubUsername
UseGitlab(s) == s.gitlabToken /\ s.gitlabUsername

\* .catch(e => { console.error(e); throw new Error(`${platform}: ${e.message}`); })
TagError(platform, p) ==
    IF p.status = "rejected" THEN [p EXCEPT !.message = <<platform, ": ">> \o @] ELSE p

\* what the GitHub search answers for the user: the open PRs that involve them
GithubInvolves(pr, user) ==
    \/ pr.author = user
    \/ user \in Range(pr.reviewRequests)
    \/ \E i \in 1..Len(pr.reviews) : pr.reviews[i].author = user
    \/ user \in Range(pr.comments)
    \/ user \in pr.involved

GithubResponse(kind) ==
    [kind |-> kind,
     nodes |-> IF kind = "ok" THEN SelectSeq(ghServer, LAMBDA pr : GithubInvolves(pr, Me))
               ELSE <<>>]

\* what GitLab answers for currentUser: the three result sets
GitlabResponse(kind) ==
    [kind |-> kind,
     username |-> Me,
     authored |-> IF kind = "ok" THEN SelectSeq(glServer, LAMBDA mr : mr.author = Me) ELSE <<>>,
     assigned |-> IF kind = "ok" THEN SelectSeq(glServer, LAMBDA mr : Me \in mr.assignees)
                  ELSE <<>>,
     reviewRequested |->
         IF kind = "ok"
         THEN SelectSeq(glServer,
                        LAMBDA mr : \E i \in 1..Len(mr.reviewers) : mr.reviewers[i].username = Me)
         ELSE <<>>]

\* the answers of the endpoints: every kind, and the ones the runs of the whole app draw
GithubKinds == {"ok", "network_error", "bad_json", "errors", "no_data"}
GitlabKinds == {"ok", "network_error", "bad_json", "errors", "no_user"}
AppGithubKinds == {"ok", "network_error", "errors"}
AppGitlabKinds == {"ok", "errors"}

\* the promises array of a cycle, in the order they were pushed
Promises(cy) ==
    (IF cy.gh.status = "none" THEN <<>> ELSE <<cy.gh>>) \o
    (IF cy.gl.status = "none" THEN <<>> ELSE <<cy.gl>>)

InFlight(cy) == cy.gh.status = "pending" \/ cy.gl.status = "pending"

\* a call of fetchData whose promises have all settled is forgotten once a later
\* call has been made
Live(cs, latest) == SelectSeq(cs, LAMBDA cy : cy.id = latest \/ InFlight(cy))

\* FetchData pushing the promise of both adapters whatever the settings hold
FetchData_InvokeAll(cs) ==
    /\ started < MaxCycles
    /\ started' = started + 1
    /\ cycles' = Live(Append(cycles,
           [id |-> started + 1, gh |-> Pending, gl |-> Pending,
            ghKind |-> Null, glKind |-> Null, done |-> FALSE]), started + 1)
    /\ loading' = TRUE
    /\ error' = <<>>
    /\ data' = <<>>

\* fetchData(currentSettings) up to its await
FetchData(cs) ==
    /\ started < MaxCycles
    /\ started' = started + 1
    /\ LET none == ~UseGithub(cs) /\ ~UseGitlab(cs)
       IN  /\ cycles' = Live(Append(cycles,
                  [id |-> started + 1,
                   gh |-> IF UseGithub(cs) THEN Pending ELSE NotCalled,
                   gl |-> IF UseGitlab(cs) THEN Pending ELSE NotCalled,
                   ghKind |-> Null,
                   glKind |-> Null,
                   done |-> none]), started + 1)
           \* setLoading(true); setError(null); setData([]); and, with no promise,
           \* setLoading(false); return
           /\ loading' = ~none
           /\ error' = <<>>
           /\ data' = <<>>

\* AfterSettle without the finally block on the rejection path
AfterSettle_NoFinally(c, cy, p) ==
    IF cy.done THEN
        /\ cycles' = Live([cycles EXCEPT ![c] = cy], started)
        /\ UNCHANGED <<data, error, loading>>
    ELSE IF p.status = "rejected" THEN
        /\ cycles' = Live([cycles EXCEPT ![c] = [cy EXCEPT !.done = TRUE]], started)
        /\ error' = IF p.message = <<>> THEN <<"Failed to fetch data">> ELSE p.message
        /\ UNCHANGED <<data, loading>>
    ELSE IF \A i \in 1..Len(Promises(cy)) : Promises(cy)[i].status = "resolved" THEN
        /\ cycles' = Live([cycles EXCEPT ![c] = [cy EXCEPT !.done = TRUE]], started)
        /\ data' = Combine([i \in 1..Len(Promises(cy)) |-> Promises(cy)[i].value])
        /\ loading' = FALSE
        /\ UNCHANGED error
    ELSE
        /\ cycles' = Live([cycles EXCEPT ![c] = cy], started)
        /\ UNCHANGED <<data, error, loading>>

\* fetchData after its await, when the promise of cycle c settles and cy is the
\* cycle with that promise settled: Promise.all rejects with the first rejection
\* and resolves when every promise has resolved
AfterSettle(c, cy, p) ==
    IF cy.done THEN
        /\ cycles' = Live([cycles EXCEPT ![c] = cy], started)
        /\ UNCHANGED <<data, error, loading>>
    ELSE IF p.status = "rejected" THEN
        \* catch (err) { setError(err.message || 'Failed to fetch data') } finally
        /\ cycles' = Live([cycles EXCEPT ![c] = [cy EXCEPT !.done = TRUE]], started)
        /\ error' = IF p.message = <<>> THEN <<"Failed to fetch data">> ELSE p.message
        /\ loading' = FALSE
        /\ UNCHANGED data
    ELSE IF \A i \in 1..Len(Promises(cy)) : Promises(cy)[i].status = "resolved" THEN
        /\ cycles' = Live([cycles EXCEPT ![c] = [cy EXCEPT !.done = TRUE]], started)
        /\ data' = Combine([i \in 1..Len(Promises(cy)) |-> Promises(cy)[i].value])
        /\ loading' = FALSE
        /\ UNCHANGED error
    ELSE
        /\ cycles' = Live([cycles EXCEPT ![c] = cy], started)
        /\ UNCHANGED <<data, error, loading>>

\* the GitHub call of cycle c settles
GithubSettle(c, kind) ==
    /\ cycles[c].gh.status = "pending"
    /\ LET p == TagError("GitHub", fetchGithubPRs(GithubResponse(kind), Me))
       IN  AfterSettle(c, [cycles[c] EXCEPT !.gh = p, !.ghKind = kind], p)
    /\ UNCHANGED <<settings, isSettingsOpen, mounted, started, ghServer, glServer>>

\* the GitLab call of cycle c settles
GitlabSettle(c, kind) ==
    /\ cycles[c].gl.status = "pending"
    /\ LET p == TagError("GitLab", fetchGitlabMRs(GitlabResponse(kind)))
       IN  AfterSettle(c, [cycles[c] EXCEPT !.gl = p, !.glKind = kind], p)
    /\ UNCHANGED <<settings, isSettingsOpen, mounted, started, ghServer, glServer>>

\* useEffect(() => {...}, []): the initial fetch, or the settings dialog
Mount ==
    /\ ~mounted
    /\ mounted' = TRUE
    /\ IF settings.githubToken \/ settings.gitlabToken
       THEN FetchData(settings) /\ UNCHANGED isSettingsOpen
       ELSE isSettingsOpen' = TRUE /\ UNCHANGED <<data, loading, error, started, cycles>>
    /\ UNCHANGED <<settings, ghServer, glServer>>

\* the refresh button: onClick={() => fetchData()}, disabled={loading}
Refresh ==
    /\ mounted
    /\ ~loading
    /\ FetchData(settings)
    /\ UNCHANGED <<settings, isSettingsOpen, mounted, ghServer, glServer>>

\* the settings button and the dialog's close button
OpenSettings ==
    /\ mounted
    /\ ~isSettingsOpen
    /\ isSettingsOpen' = TRUE
    /\ UNCHANGED <<settings, data, loading, error, mounted, started, cycles, ghServer, glServer>>

CloseSettings ==
    /\ mounted
    /\ isSettingsOpen
    /\ isSettingsOpen' = FALSE
    /\ UNCHANGED <<settings, data, loading, error, mounted, started, cycles, ghServer, glServer>>

\* handleSaveSettings(newSettings), from the dialog's save button
handleSaveSettings(newSettings) ==
    /\ mounted
    /\ isSettingsOpen
    /\ settings' = newSettings
    /\ isSettingsOpen' = FALSE
    /\ FetchData(newSettings)
    /\ UNCHANGED <<mounted, ghServer, glServer>>

-----------------------------------------------------------------------------
(* The environment: what the two servers may hold                           *)

Bob == "bob"

PipePassed == [status |-> s_SUCCESS, label |-> s_passed]
PipeFailed == [status |-> <<"F","A","I","L","E","D">>, label |-> s_failed]

\* project.path is the last segment of the project's full path
ProjectPath(fullPath) ==
    CASE fullPath = "g1/app" -> "app"
      [] fullPath = "g2/app" -> "app"

\* a merge request as the MRFields fragment returns it, with what only the server
\* knows of it: the project's full path and the assignees
GitlabMR(fullPath, iid, updatedAt, profile) ==
    [fullPath |-> fullPath,
     project |-> [name |-> ProjectPath(fullPath), path |-> ProjectPath(fullPath)],
     iid |-> iid,
     updatedAt |-> updatedAt,
     author |-> profile.author,
     reviewers |-> profile.reviewers,
     approvedBy |-> profile.approvedBy,
     approvalsRequired |-> profile.approvalsRequired,
     headPipeline |-> profile.headPipeline,
     discussions |-> profile.discussions,
     userNotesCount |-> Len(profile.discussions),
     assignees |-> profile.assignees]

\* a pull request as the search query returns it, with what only the server knows
\* of it: who else it involves (assignees, mentions)
GithubPR(number, updatedAt, profile) ==
    [owner |-> "octo",
     repo |-> "app",
     number |-> number,
     updatedAt |-> updatedAt,
     author |-> profile.author,
     reviewRequests |-> profile.reviewRequests,
     reviews |-> profile.reviews,
     comments |-> profile.comments,
     rollup |-> profile.rollup,
     reviewDecision |-> profile.reviewDecision,
     totalCommentsCount |-> Len(profile.comments),
     involved |-> profile.involved]

GitlabIdent(mr) == <<mr.fullPath, mr.iid>>
GithubIdent(pr) == <<pr.owner, pr.repo, pr.number>>

\* lists in the server's UPDATED_DESC order, of distinct requests
IsServerList(s, ident(_)) ==
    /\ \A i, j \in 1..Len(s) : i < j => s[i].updatedAt >= s[j].updatedAt
    /\ \A i, j \in 1..Len(s) : i # j => ident(s[i]) # ident(s[j])

GitlabServers(universe, n) == {s \in SeqsUpTo(universe, n) : IsServerList(s, GitlabIdent)}
GithubServers(universe, n) == {s \in SeqsUpTo(universe, n) : IsServerList(s, GithubIdent)}

GitlabReviewer(username, reviewState) == [username |-> username, reviewState |-> reviewState]
GithubReview(author, state, submittedAt) ==
    [author |-> author, state |-> state, submittedAt |-> submittedAt]

Settings(ghT, ghU, glT, glU) ==
    [githubToken |-> ghT, githubUsername |-> ghU, gitlabToken |-> glT, gitlabUsername |-> glU]

NoSettings == Settings(FALSE, FALSE, FALSE, FALSE)
GithubOnly == Settings(TRUE, TRUE, FALSE, FALSE)
GitlabOnly == Settings(FALSE, FALSE, TRUE, TRUE)
BothPlatforms == Settings(TRUE, TRUE, TRUE, TRUE)
TokenOnly == Settings(TRUE, FALSE, FALSE, FALSE)

\* the saved settings: nothing, one platform, both, or a token without its username
SettingsDomain == {NoSettings, GithubOnly, GitlabOnly, BothPlatforms, TokenOnly}
\* what the settings dialog submits
FormDomain == {NoSettings, GitlabOnly, BothPlatforms}

-----------------------------------------------------------------------------
(* The whole app, over two merge requests and one pull request              *)

\* !1 is mine, its pipeline failed, and I am one of its reviewers
AppMR1(t) ==
    GitlabMR("g1/app", 1, t,
        [author |-> Me, reviewers |-> <<GitlabReviewer(Me, "UNREVIEWED")>>,
         approvedBy |-> <<>>, approvalsRequired |-> 1,
         headPipeline |-> PipeFailed, discussions |-> <<>>, assignees |-> {}])

\* !2 is Bob's, assigned to me and approved by me
AppMR2(t) ==
    GitlabMR("g1/app", 2, t,
        [author |-> Bob, reviewers |-> <<GitlabReviewer(Me, "APPROVED")>>,
         approvedBy |-> <<Me>>, approvalsRequired |-> 1,
         headPipeline |-> PipePassed, discussions |-> <<>>, assignees |-> {Me}])

\* #1 is mine and approved by Bob
AppPR1(t) ==
    GithubPR(1, t,
        [author |-> Me, reviewRequests |-> <<>>,
         reviews |-> <<GithubReview(Bob, "APPROVED", 1)>>,
         comments |-> <<>>, rollup |-> s_SUCCESS, reviewDecision |-> "APPROVED",
         involved |-> {}])

AppGitlabUniverse == {AppMR1(t) : t \in 1..MaxTime} \cup {AppMR2(t) : t \in 1..MaxTime}
AppGithubUniverse == {AppPR1(t) : t \in 1..MaxTime}

AppInit ==
    /\ isSettingsOpen = FALSE
    /\ data = <<>>
    /\ loading = FALSE
    /\ error = <<>>
    /\ mounted = FALSE
    /\ started = 0
    /\ cycles = <<>>

Init ==
    /\ AppInit
    /\ settings \in SettingsDomain
    /\ ghServer \in GithubServers(AppGithubUniverse, MaxGithubPRs)
    /\ glServer \in GitlabServers(AppGitlabUniverse, MaxGitlabMRs)

Next ==
    \/ Mount
    \/ Refresh
    \/ OpenSettings
    \/ CloseSettings
    \/ \E s \in FormDomain : handleSaveSettings(s)
    \/ \E c \in 1..Len(cycles), kind \in AppGithubKinds : GithubSettle(c, kind)
    \/ \E c \in 1..Len(cycles), kind \in AppGitlabKinds : GitlabSettle(c, kind)

Spec == Init /\ [][Next]_vars

-----------------------------------------------------------------------------
(* The whole app, with every adapter call settling                          *)

\* some outstanding adapter call settles
SettleAny ==
    \/ \E c \in 1..Len(cycles), kind \in AppGithubKinds : GithubSettle(c, kind)
    \/ \E c \in 1..Len(cycles), kind \in AppGitlabKinds : GitlabSettle(c, kind)

\* any saved settings, over servers that hold !1, !2 and #1
InitLive ==
    /\ AppInit
    /\ settings \in SettingsDomain
    /\ ghServer = <<AppPR1(1)>>
    /\ glServer \in {<<AppMR1(1)>>, <<AppMR2(1), AppMR1(1)>>}

\* the promises of the adapters are not left pending for ever
SpecLive == InitLive /\ [][Next]_vars /\ WF_vars(SettleAny)

-----------------------------------------------------------------------------
(* One aggregation run over one request with any review and approval state  *)

ViewGitlabProfiles ==
    {[author |-> a,
      reviewers |-> mine \o bobs,
      approvedBy |-> ap,
      approvalsRequired |-> req,
      headPipeline |-> pipe,
      discussions |-> <<>>,
      assignees |-> {Me}] :
        a \in {Me, Bob},
        mine \in {<<>>} \cup {<<GitlabReviewer(Me, st)>> :
                     st \in {"UNREVIEWED", "APPROVED", "REVIEWED", "REQUESTED_CHANGES"}},
        bobs \in {<<>>, <<GitlabReviewer(Bob, "REQUESTED_CHANGES")>>},
        ap \in {<<>>, <<Bob>>},
        req \in {0, 1, 2},
        pipe \in {PipePassed, PipeFailed}}

ViewGithubProfiles ==
    {[author |-> a,
      reviewRequests |-> rr,
      reviews |-> rv,
      comments |-> <<>>,
      rollup |-> roll,
      reviewDecision |-> dec,
      involved |-> {Me}] :
        a \in {Me, Bob},
        rr \in {<<>>, <<Me>>},
        rv \in {<<>>} \cup {<<GithubReview(who, st, 1)>> :
                   who \in {Me, Bob}, st \in {"APPROVED", "CHANGES_REQUESTED", "COMMENTED"}},
        roll \in {s_SUCCESS, s_FAILURE},
        dec \in {Null, "APPROVED", "CHANGES_REQUESTED", "REVIEW_REQUIRED"}}

ViewKinds == {"ok", "errors"}

InitView ==
    /\ AppInit
    /\ settings = BothPlatforms
    /\ \/ /\ glServer \in {<<GitlabMR("g1/app", 1, 1, p)>> : p \in ViewGitlabProfiles}
          /\ ghServer \in {<<>>, <<AppPR1(1)>>}
       \/ /\ glServer \in {<<>>, <<AppMR2(1)>>}
          /\ ghServer \in {<<GithubPR(1, 1, p)>> : p \in ViewGithubProfiles}

NextView ==
    \/ Mount
    \/ \E c \in 1..Len(cycles), kind \in ViewKinds : GithubSettle(c, kind)
    \/ \E c \in 1..Len(cycles), kind \in ViewKinds : GitlabSettle(c, kind)

SpecView == InitView /\ [][NextView]_vars

-----------------------------------------------------------------------------
(* One call of the GitLab adapter, over every answer of the endpoint        *)

AdapterGitlabProfiles ==
    { \* mine
      [author |-> Me, reviewers |-> <<>>, approvedBy |-> <<>>, approvalsRequired |-> 1,
       headPipeline |-> PipePassed, discussions |-> <<>>, assignees |-> {}],
      \* mine, and I am one of its reviewers
      [author |-> Me, reviewers |-> <<GitlabReviewer(Me, "UNREVIEWED")>>,
       approvedBy |-> <<>>, approvalsRequired |-> 1,
       headPipeline |-> PipeFailed, discussions |-> <<>>, assignees |-> {}],
      \* Bob's, assigned to me and reviewed by me
      [author |-> Bob, reviewers |-> <<GitlabReviewer(Me, "REVIEWED")>>,
       approvedBy |-> <<>>, approvalsRequired |-> 1,
       headPipeline |-> PipePassed, discussions |-> <<>>, assignees |-> {Me}],
      \* Bob's, assigned to me
      [author |-> Bob, reviewers |-> <<>>, approvedBy |-> <<>>, approvalsRequired |-> 0,
       headPipeline |-> PipePassed, discussions |-> <<>>, assignees |-> {Me}] }

AdapterGitlabUniverse ==
    {GitlabMR(path, iid, t, p) :
        path \in {"g1/app", "g2/app"}, iid \in {1, 2}, t \in 1..MaxTime,
        p \in AdapterGitlabProfiles}

InitGitlab ==
    /\ AppInit
    /\ settings = GitlabOnly
    /\ ghServer = <<>>
    /\ glServer \in GitlabServers(AdapterGitlabUniverse, MaxGitlabMRs)

NextGitlab ==
    \/ Mount
    \/ \E c \in 1..Len(cycles), kind \in GitlabKinds : GitlabSettle(c, kind)

SpecGitlab == InitGitlab /\ [][NextGitlab]_vars

-----------------------------------------------------------------------------
(* One call of the GitHub adapter, over one pull request with any reviews   *)

\* an earlier and a later submission time
ReviewTimes == {1, 2}

AdapterGithubReviews ==
    {GithubReview(who, st, t) :
        who \in {Me, Bob},
        st \in {"APPROVED", "CHANGES_REQUESTED", "COMMENTED", "DISMISSED"},
        t \in ReviewTimes}

AdapterGithubProfiles ==
    \* any reviews, requests and comments, before the platform has decided
    {[author |-> a, reviewRequests |-> rr, reviews |-> rv, comments |-> cm,
      rollup |-> s_SUCCESS, reviewDecision |-> Null, involved |-> {Me}] :
        a \in {Me, Bob},
        rr \in {<<>>, <<Me>>, <<Bob>>},
        rv \in SeqsUpTo(AdapterGithubReviews, MaxReviews),
        cm \in {<<>>, <<Me>>, <<Bob>>}}
    \cup
    \* at most one review, and any decision of the platform
    {[author |-> a, reviewRequests |-> <<>>, reviews |-> rv, comments |-> <<>>,
      rollup |-> s_SUCCESS, reviewDecision |-> dec, involved |-> {Me}] :
        a \in {Me, Bob},
        rv \in SeqsUpTo(AdapterGithubReviews, 1),
        dec \in {"APPROVED", "CHANGES_REQUESTED", "REVIEW_REQUIRED"}}

InitGithub ==
    /\ AppInit
    /\ settings = GithubOnly
    /\ glServer = <<>>
    /\ ghServer \in {<<GithubPR(1, 1, p)>> : p \in AdapterGithubProfiles}

NextGithub ==
    \/ Mount
    \/ \E c \in 1..Len(cycles), kind \in ViewKinds : GithubSettle(c, kind)

SpecGithub == InitGithub /\ [][NextGithub]_vars

-----------------------------------------------------------------------------
(* One call of the GitLab adapter, over one merge request with any          *)
(* reviewers, approvers and discussions                                     *)

\* the review states of the platform, one the mapper does not know, and none
GitlabReviewStates ==
    {"UNREVIEWED", "REVIEWED", "REQUESTED_CHANGES", "APPROVED", "REVIEW_STARTED", Null}

\* a system note, an open thread and a resolved thread
GitlabDiscussions ==
    {[resolvable |-> FALSE, resolved |-> FALSE],
     [resolvable |-> TRUE, resolved |-> FALSE],
     [resolvable |-> TRUE, resolved |-> TRUE]}

MapperGitlabProfiles ==
    {[author |-> a,
      reviewers |-> rv,
      approvedBy |-> ap,
      approvalsRequired |-> req,
      headPipeline |-> PipePassed,
      discussions |-> ds,
      assignees |-> {Me}] :
        a \in {Me, Bob},
        rv \in {<<>>}
              \cup {<<GitlabReviewer(u, st)>> : u \in {Me, Bob}, st \in GitlabReviewStates}
              \cup {<<GitlabReviewer(Me, st1), GitlabReviewer(Bob, st2)>> :
                        st1 \in GitlabReviewStates, st2 \in GitlabReviewStates},
        ap \in {<<>>, <<Me>>, <<Bob>>, <<Bob, Me>>},
        req \in {0, 1, 2},
        ds \in SeqsUpTo(GitlabDiscussions, MaxDiscussions)}

InitGitlabMapper ==
    /\ AppInit
    /\ settings = GitlabOnly
    /\ ghServer = <<>>
    /\ glServer \in {<<GitlabMR("g1/app", 1, 1, p)>> : p \in MapperGitlabProfiles}

NextGitlabMapper ==
    \/ Mount
    \/ \E c \in 1..Len(cycles), kind \in ViewKinds : GitlabSettle(c, kind)

SpecGitlabMapper == InitGitlabMapper /\ [][NextGitlabMapper]_vars

-----------------------------------------------------------------------------
(* One call of the GitLab adapter, over one merge request with any head     *)
(* pipeline                                                                 *)

s_FAILED == <<"F","A","I","L","E","D">>
s_CREATED == <<"C","R","E","A","T","E","D">>
s_MANUAL == <<"M","A","N","U","A","L">>
s_CANCELED == <<"C","A","N","C","E","L","E","D">>
s_SKIPPED == <<"S","K","I","P","P","E","D">>
s_WARNING == <<"W","A","R","N","I","N","G">>
s_SUCCESS_WITH_WARNINGS == <<"S","U","C","C","E","S","S","_","W","I","T","H","_","W","A","R","N","I","N","G","S">>
s_success_with_dash_warnings == <<"s","u","c","c","e","s","s","-","w","i","t","h","-","w","a","r","n","i","n","g","s">>
s_passed_with_warnings == <<"p","a","s","s","e","d"," ","w","i","t","h"," ","w","a","r","n","i","n","g","s">>
s_Warning == <<"W","a","r","n","i","n","g">>
s_canceled == <<"c","a","n","c","e","l","e","d">>

\* headPipeline.status: the values of the platform's enum, in the spellings the
\* mapper compares with, values that spell a warning, and none
PipelineStatuses ==
    {<<>>, s_SUCCESS, s_success, s_passed, s_FAILED, s_failure, s_RUNNING, s_PENDING,
     s_CREATED, s_MANUAL, s_CANCELED, s_SKIPPED,
     s_WARNING, s_SUCCESS_WITH_WARNINGS, s_success_with_dash_warnings}

\* headPipeline.detailedStatus.label
PipelineLabels ==
    {<<>>, s_passed, s_passed_with_warnings, s_Warning, s_failed, s_running, s_canceled}

PipelineGitlabProfiles ==
    {[author |-> Me, reviewers |-> <<>>, approvedBy |-> <<>>, approvalsRequired |-> 1,
      headPipeline |-> [status |-> st, label |-> lb],
      discussions |-> <<>>, assignees |-> {}] :
        st \in PipelineStatuses, lb \in PipelineLabels}

InitGitlabPipeline ==
    /\ AppInit
    /\ settings = GitlabOnly
    /\ ghServer = <<>>
    /\ glServer \in {<<GitlabMR("g1/app", 1, 1, p)>> : p \in PipelineGitlabProfiles}

NextGitlabPipeline ==
    \/ Mount
    \/ \E c \in 1..Len(cycles), kind \in ViewKinds : GitlabSettle(c, kind)

SpecGitlabPipeline == InitGitlabPipeline /\ [][NextGitlabPipeline]_vars

-----------------------------------------------------------------------------
(* One call of either adapter, over one request with any review state       *)

InitAdapters == InitGithub \/ InitGitlabMapper

NextAdapters ==
    \/ Mount
    \/ \E c \in 1..Len(cycles), kind \in ViewKinds : GithubSettle(c, kind)
    \/ \E c \in 1..Len(cycles), kind \in ViewKinds : GitlabSettle(c, kind)

SpecAdapters == InitAdapters /\ [][NextAdapters]_vars

-----------------------------------------------------------------------------
(* What the claims are stated over                                          *)

\* the buckets of the displayed collection
Buckets == sections(data)

BucketNames == DOMAIN EmptyBuckets

\* how many entries of bucket name are pr
CountIn(name, pr) == Cardinality({i \in 1..Len(Buckets[name]) : Buckets[name][i] = pr})

InBucket(name, pr) == name \in DOMAIN Buckets /\ CountIn(name, pr) > 0

\* pr is once in bucket name and in no other bucket
OnlyIn(name, pr) ==
    \A n \in BucketNames : CountIn(n, pr) = (IF n = name THEN 1 ELSE 0)

InNoBucket(pr) == \A n \in BucketNames : CountIn(n, pr) = 0

Items == Range(data)

AuthorBuckets == {"returned", "approvedByOthers", "waitingForApprovals", "yourPRs"}
ReviewerBuckets == {"approvedByYou", "waitingForAuthor", "reviewRequested"}

\* the one fetch cycle of a run in which fetchData was called once, when it is over
\* and its promises have settled
AloneAndSettled(cy) == started = 1 /\ cy.id = 1 /\ cy.done /\ ~InFlight(cy)

GithubFailed(cy) == cy.gh.status = "rejected"
GitlabFailed(cy) == cy.gl.status # "none" /\ cy.glKind \notin {Null, "ok"}

-----------------------------------------------------------------------------
(* C1: for every aggregated collection, each item is in at most one bucket, *)
(* and at most once in it.                                                  *)
C1_AtMostOneBucket ==
    \A pr \in Items :
        \E only \in BucketNames \cup {"none"} :
            \A n \in BucketNames : CountIn(n, pr) <= (IF n = only THEN 1 ELSE 0)

\* a collection of several items, one of which matches the rules of two buckets
C1_Witness ==
    /\ Len(data) >= 2
    /\ \E pr \in Items :
          IsReturned(pr) /\ pr.isReviewer /\ pr.myReviewState = "pending"
          /\ OnlyIn("returned", pr)
    /\ \E pr \in Items : OnlyIn("approvedByYou", pr)

(* C2, as claimed: every item with isAuthor = true is in one of the four    *)
(* author buckets, never in a reviewer bucket, whatever isReviewer and      *)
(* myReviewState are.                                                       *)
C2_AuthorRulesFirst ==
    \A pr \in Items :
        pr.isAuthor =>
            /\ \E n \in AuthorBuckets : InBucket(n, pr)
            /\ \A n \in ReviewerBuckets : ~InBucket(n, pr)

(* C2, amended: the reviewer rules "Review requested" and "Approved by you" *)
(* come right after "Returned to you". An item with isAuthor = true is in   *)
(* "Returned to you" if that rule matches; else in "Review requested" if it *)
(* is a reviewer with myReviewState pending, in "Approved by you" if a      *)
(* reviewer with myReviewState approved; else in one of the other three     *)
(* author buckets.                                                          *)
C2_AuthorUnlessReviewing ==
    \A pr \in Items :
        pr.isAuthor =>
            IF IsReturned(pr) THEN OnlyIn("returned", pr)
            ELSE IF pr.isReviewer /\ pr.myReviewState = "pending"
                 THEN OnlyIn("reviewRequested", pr)
            ELSE IF pr.isReviewer /\ pr.myReviewState = "approved"
                 THEN OnlyIn("approvedByYou", pr)
            ELSE \E n \in {"approvedByOthers", "waitingForApprovals", "yourPRs"} :
                    OnlyIn(n, pr)

\* an item of mine that I also review, not returned, shown under "Review requested"
C2_Witness ==
    \E pr \in Items :
        /\ pr.isAuthor /\ ~IsReturned(pr)
        /\ pr.isReviewer /\ pr.myReviewState = "pending"
        /\ OnlyIn("reviewRequested", pr)

(* C3, as claimed: every item with isAuthor = false, isReviewer = true and  *)
(* myReviewState changes_requested or commented is in the bucket "Waiting   *)
(* for the author".                                                         *)
C3_WaitingForAuthor ==
    \A pr \in Items :
        (~pr.isAuthor /\ pr.isReviewer
            /\ pr.myReviewState \in {"changes_requested", "commented"})
        => InBucket("waitingForAuthor", pr)

(* C3, amended: there is no such bucket; every item with isAuthor = false,  *)
(* isReviewer = true and myReviewState changes_requested or commented is in *)
(* no bucket.                                                               *)
C3_ReviewedIsDropped ==
    \A pr \in Items :
        (~pr.isAuthor /\ pr.isReviewer
            /\ pr.myReviewState \in {"changes_requested", "commented"})
        => InNoBucket(pr)

\* a settled collection with an item of somebody else that I reviewed with a
\* comment only, shown in no bucket
C3_Witness ==
    /\ \E pr \in Items :
          ~pr.isAuthor /\ pr.isReviewer /\ pr.myReviewState = "commented" /\ InNoBucket(pr)
    /\ loading = FALSE

(* C4: every item with isAuthor = true and (overallReviewState =            *)
(* changes_requested or pipelineStatus = failed) is in "Returned to you",   *)
(* and nowhere else, whatever its other fields are.                         *)
C4_Returned ==
    \A pr \in Items :
        (pr.isAuthor /\ (pr.overallReviewState = "changes_requested"
                         \/ pr.pipelineStatus = "failed"))
        => OnlyIn("returned", pr)

\* changes requested on a green pipeline, by an author who is also a pending reviewer
C4_Witness ==
    \E pr \in Items :
        /\ pr.isAuthor /\ pr.overallReviewState = "changes_requested"
        /\ pr.pipelineStatus = "success"
        /\ pr.isReviewer /\ pr.myReviewState = "pending"
        /\ OnlyIn("returned", pr)

(* C5, as claimed: every item with isAuthor = true and approvals.given <    *)
(* approvals.required that matches neither "Returned to you" nor "Approved  *)
(* by others" is in "Waiting for approvals".                                *)
C5_WaitingForApprovals ==
    \A pr \in Items :
        (pr.isAuthor /\ pr.approvals.given < pr.approvals.required
            /\ ~IsReturned(pr) /\ pr.overallReviewState # "approved")
        => InBucket("waitingForApprovals", pr)

(* C5, amended: ... and that is not a reviewer with myReviewState pending   *)
(* or approved (those are in "Review requested" and "Approved by you") is   *)
(* in "Waiting for approvals".                                              *)
C5_WaitingUnlessReviewing ==
    \A pr \in Items :
        (pr.isAuthor /\ pr.approvals.given < pr.approvals.required
            /\ ~IsReturned(pr) /\ pr.overallReviewState # "approved"
            /\ ~(pr.isReviewer /\ pr.myReviewState \in {"pending", "approved"}))
        => OnlyIn("waitingForApprovals", pr)

\* one approval of two, no changes requested
C5_Witness ==
    \E pr \in Items :
        /\ pr.isAuthor /\ pr.approvals.given = 1 /\ pr.approvals.required = 2
        /\ pr.overallReviewState = "pending"
        /\ OnlyIn("waitingForApprovals", pr)

(* C6: the displayed collection is sorted non-increasing in updatedAt,      *)
(* across the items of both platforms (it is empty until a fetch cycle      *)
(* succeeds, and then what that cycle combined).                            *)
C6_SortedByUpdatedAt ==
    \A i, j \in 1..Len(data) : i < j => data[i].updatedAt >= data[j].updatedAt

\* a GitLab item displayed before an older GitHub item, after a cycle over both
C6_Witness ==
    /\ loading = FALSE
    /\ \E i, j \in 1..Len(data) :
          /\ i < j
          /\ data[i].source = "gitlab" /\ data[j].source = "github"
          /\ data[i].updatedAt > data[j].updatedAt

\* number of items of a collection carrying a key
KeyCount(items, key) == Cardinality({i \in 1..Len(items) : items[i].uniqueKey = key})

\* the merge requests of the three result sets of a response
ReturnedMRs(resp) == Range(resp.authored) \cup Range(resp.assigned) \cup Range(resp.reviewRequested)

(* C7: no two items of the displayed collection have the same uniqueKey,    *)
(* and a merge request returned in more than one of the three result sets   *)
(* is exactly once in what the GitLab adapter returns.                      *)
C7_UniqueKeys ==
    /\ \A i, j \in 1..Len(data) : i # j => data[i].uniqueKey # data[j].uniqueKey
    /\ \A c \in 1..Len(cycles) :
          (cycles[c].gl.status = "resolved" /\ cycles[c].glKind = "ok") =>
              \A mr \in ReturnedMRs(GitlabResponse("ok")) :
                  KeyCount(cycles[c].gl.value, GitlabKey(mr)) = 1

\* a merge request in both the authored and the review-requested result set,
\* displayed beside a GitHub item
C7_Witness ==
    /\ \E mr \in Range(GitlabResponse("ok").authored) \cap Range(GitlabResponse("ok").reviewRequested) :
          KeyCount(data, GitlabKey(mr)) = 1
    /\ \E pr \in Items : pr.source = "github"

(* C8: when both adapters are called and exactly one of them fails, the     *)
(* items the other one returned are in the displayed collection at the end  *)
(* of the cycle.                                                            *)
C8_OtherPlatformShown ==
    \A c \in 1..Len(cycles) :
        LET cy == cycles[c]
        IN  (AloneAndSettled(cy) /\ cy.gh.status # "none" /\ cy.gl.status # "none") =>
                /\ (GithubFailed(cy) /\ ~GitlabFailed(cy)) => Range(cy.gl.value) \subseteq Items
                /\ (GitlabFailed(cy) /\ ~GithubFailed(cy)) => Range(cy.gh.value) \subseteq Items

C10_ErrorNamesPlatform ==
    \A c \in 1..Len(cycles) :
        LET cy == cycles[c]
        IN  AloneAndSettled(cy) =>
                /\ (GithubFailed(cy) /\ ~GitlabFailed(cy)) => (error # <<>> /\ error[1] = "GitHub")
                /\ (GitlabFailed(cy) /\ ~GithubFailed(cy)) => (error # <<>> /\ error[1] = "GitLab")

-----------------------------------------------------------------------------
\* the cycle a call of fetchData has just started
NewCycle == cycles'[Len(cycles')]

(* C11: in every call of fetchData, the GitHub adapter is invoked exactly   *)
(* when the settings of the call hold a GitHub token and username, the      *)
(* GitLab adapter exactly when they hold a GitLab token and username, an    *)
(* adapter that was not invoked is never settled later, and a call with     *)
(* neither configured ends at once with loading = false, error = null and   *)
(* an empty collection.                                                     *)
C11_UnconfiguredSkipped ==
    [][/\ started' # started =>
            /\ NewCycle.id = started'
            /\ (NewCycle.gh.status # "none") <=> UseGithub(settings')
            /\ (NewCycle.gl.status # "none") <=> UseGitlab(settings')
            /\ (~UseGithub(settings') /\ ~UseGitlab(settings')) =>
                  (NewCycle.done /\ loading' = FALSE /\ error' = <<>> /\ data' = <<>>)
       /\ \A c \in 1..Len(cycles), d \in 1..Len(cycles') :
            cycles[c].id = cycles'[d].id =>
                /\ (cycles[c].gh.status = "none" => cycles'[d].gh.status = "none")
                /\ (cycles[c].gl.status = "none" => cycles'[d].gl.status = "none")]_vars

\* a call of fetchData with no adapter configured (a token without its username,
\* or nothing saved in the dialog) has ended with nothing invoked
C11_Witness ==
    /\ started > 0
    /\ settings \in {TokenOnly, NoSettings}
    /\ cycles[Len(cycles)].gh.status = "none" /\ cycles[Len(cycles)].gl.status = "none"
    /\ ~loading /\ error = <<>> /\ data = <<>>

-----------------------------------------------------------------------------
\* the nodes of a response in the order addList sees them
GitlabNodes(resp) == resp.authored \o resp.assigned \o resp.reviewRequested

\* where a key occurs in a list of nodes
KeyIndexes(nodes, key) == {i \in 1..Len(nodes) : GitlabKey(nodes[i]) = key}
FirstIndex(nodes, key) == CHOOSE i \in KeyIndexes(nodes, key) : \A j \in KeyIndexes(nodes, key) : i <= j
LastIndex(nodes, key) == CHOOSE i \in KeyIndexes(nodes, key) : \A j \in KeyIndexes(nodes, key) : i >= j

\* the cycles whose GitLab call was answered with the result sets and has resolved
GitlabAnswered == {c \in 1..Len(cycles) : cycles[c].gl.status = "resolved" /\ cycles[c].glKind = "ok"}

(* C12, as claimed: every entity the GitLab adapter returns is the mapping  *)
(* of the first node with its key, in the order authored, assigned,         *)
(* review-requested.                                                        *)
C12_FirstSeenWins ==
    \A c \in GitlabAnswered :
        LET nodes == GitlabNodes(GitlabResponse("ok"))
            value == cycles[c].gl.value
        IN  \A i \in 1..Len(value) :
                value[i] = mapGitlabToUnified(nodes[FirstIndex(nodes, value[i].uniqueKey)], Me)

(* What the adapter does where C12 claims first-seen wins: every entity it  *)
(* returns is the mapping of the last node with its key, in the order       *)
(* authored, assigned, review-requested; every key is returned once, and    *)
(* the entities are in the order in which their keys first occur.           *)
C12_LastSeenWins ==
    \A c \in GitlabAnswered :
        LET nodes == GitlabNodes(GitlabResponse("ok"))
            value == cycles[c].gl.value
        IN  /\ \A n \in 1..Len(nodes) : KeyCount(value, GitlabKey(nodes[n])) = 1
            /\ \A i \in 1..Len(value) :
                  /\ KeyIndexes(nodes, value[i].uniqueKey) # {}
                  /\ value[i] = mapGitlabToUnified(nodes[LastIndex(nodes, value[i].uniqueKey)], Me)
            /\ \A i, j \in 1..Len(value) :
                  i < j => FirstIndex(nodes, value[i].uniqueKey) < FirstIndex(nodes, value[j].uniqueKey)

\* the adapter has returned one entity for a key under which the result sets hold
\* two merge requests that differ: !1 of two projects whose paths end alike
C12_Witness ==
    \E c \in GitlabAnswered :
        LET nodes == GitlabNodes(GitlabResponse("ok"))
            value == cycles[c].gl.value
        IN  \E i \in 1..Len(value) :
                /\ nodes[FirstIndex(nodes, value[i].uniqueKey)].fullPath
                       # nodes[LastIndex(nodes, value[i].uniqueKey)].fullPath
                /\ mapGitlabToUnified(nodes[FirstIndex(nodes, value[i].uniqueKey)], Me)
                       # mapGitlabToUnified(nodes[LastIndex(nodes, value[i].uniqueKey)], Me)
                /\ value[i] = mapGitlabToUnified(nodes[LastIndex(nodes, value[i].uniqueKey)], Me)

-----------------------------------------------------------------------------
(* The reviews of a raw pull request, read without the adapter              *)

\* the cycles whose GitHub call was answered with the search nodes and has resolved
GithubAnswered == {c \in 1..Len(cycles) : cycles[c].gh.status = "resolved" /\ cycles[c].ghKind = "ok"}

\* the raw pull requests and their unified entities, paired
GithubPairs ==
    UNION {{[raw |-> GithubResponse("ok").nodes[i], unified |-> cycles[c].gh.value[i]] :
                i \in 1..Len(cycles[c].gh.value)} : c \in GithubAnswered}

Logins == {Me, Bob}

\* the reviews of login l that set or clear a binding state
BindingReviews(pr, l) ==
    {i \in 1..Len(pr.reviews) :
        pr.reviews[i].author = l
        /\ pr.reviews[i].state \in {"APPROVED", "CHANGES_REQUESTED", "DISMISSED"}}

\* review i is submitted after review j, or with it and listed after it
SubmittedAfter(pr, i, j) ==
    \/ pr.reviews[i].submittedAt > pr.reviews[j].submittedAt
    \/ pr.reviews[i].submittedAt = pr.reviews[j].submittedAt /\ i > j

\* the last of the reviews of l that set or clear a binding state; 0 if there is none
LastBindingReview(pr, l) ==
    IF BindingReviews(pr, l) = {} THEN 0
    ELSE CHOOSE i \in BindingReviews(pr, l) :
             \A j \in BindingReviews(pr, l) \ {i} : SubmittedAfter(pr, i, j)

\* the latest binding state of l: "APPROVED", "CHANGES_REQUESTED" or "NONE"
LatestBindingState(pr, l) ==
    IF LastBindingReview(pr, l) = 0 THEN "NONE"
    ELSE IF pr.reviews[LastBindingReview(pr, l)].state = "DISMISSED" THEN "NONE"
    ELSE pr.reviews[LastBindingReview(pr, l)].state

\* the statuses the reviewers list of a unified entity gives login l
StatusesOf(u, l) == {u.reviewers[i].status : i \in {j \in 1..Len(u.reviewers) : u.reviewers[j].username = l}}

IsRequested(pr, l) == l \in Range(pr.reviewRequests)

HasCommented(pr, l) ==
    \/ \E i \in 1..Len(pr.reviews) : pr.reviews[i].author = l /\ pr.reviews[i].state = "COMMENTED"
    \/ l \in Range(pr.comments)

(* C13: GitHub: a reviewer whose latest binding review is changes_requested *)
(* has status pending if they are in the requested-reviewers list, and      *)
(* status changes_requested if they are not.                                *)
C13_RerequestClearsChanges ==
    \A p \in GithubPairs : \A l \in Logins :
        LatestBindingState(p.raw, l) = "CHANGES_REQUESTED" =>
            StatusesOf(p.unified, l) =
                {IF IsRequested(p.raw, l) THEN "pending" ELSE "changes_requested"}

\* Bob requested changes and was requested again: his status is pending
C13_Witness ==
    \E p \in GithubPairs :
        /\ LatestBindingState(p.raw, Bob) = "CHANGES_REQUESTED"
        /\ IsRequested(p.raw, Bob)
        /\ StatusesOf(p.unified, Bob) = {"pending"}

\* an approval of l was dismissed, and l has set no binding state since
ApprovalDismissed(pr, l) ==
    /\ LastBindingReview(pr, l) # 0
    /\ pr.reviews[LastBindingReview(pr, l)].state = "DISMISSED"
    /\ \E i \in BindingReviews(pr, l) :
          /\ pr.reviews[i].state = "APPROVED"
          /\ SubmittedAfter(pr, LastBindingReview(pr, l), i)

(* C14: GitHub: an author whose approved review is followed in submission   *)
(* order by a dismissed review of theirs, with nothing binding after it,    *)
(* has no binding state: their reviewer status is pending if they are       *)
(* requested, else commented if they commented, else pending; it is never   *)
(* approved, and they are not counted in approvals.given.                   *)
C14_DismissedClearsApproval ==
    \A p \in GithubPairs : \A l \in Logins :
        ApprovalDismissed(p.raw, l) =>
            /\ StatusesOf(p.unified, l) =
                  {IF IsRequested(p.raw, l) THEN "pending"
                   ELSE IF HasCommented(p.raw, l) THEN "commented"
                   ELSE "pending"}
            /\ p.unified.approvals.given =
                  Cardinality({x \in Logins \ {l} : LatestBindingState(p.raw, x) = "APPROVED"})

\* Bob's approval was dismissed; the dismissal is listed before the approval it
\* follows in time, and the pull request counts no approval
C14_Witness ==
    \E p \in GithubPairs :
        /\ ApprovalDismissed(p.raw, Bob)
        /\ LastBindingReview(p.raw, Bob) = 1
        /\ StatusesOf(p.unified, Bob) = {"pending"}
        /\ p.unified.approvals.given = 0

\* the users that are requested, submitted a review or commented
Participants(pr) ==
    (Range(pr.reviewRequests) \cup {pr.reviews[i].author : i \in 1..Len(pr.reviews)}
        \cup Range(pr.comments)) \ {Null}

(* C15: GitHub: the reviewers of a unified pull request are, each once, the *)
(* users that are requested, submitted a review or commented, without the   *)
(* author of the pull request; isReviewer is false for the author.          *)
C15_ReviewersExcludeAuthor ==
    \A p \in GithubPairs :
        /\ {p.unified.reviewers[i].username : i \in 1..Len(p.unified.reviewers)}
              = Participants(p.raw) \ {p.raw.author}
        /\ \A i, j \in 1..Len(p.unified.reviewers) :
              i # j => p.unified.reviewers[i].username # p.unified.reviewers[j].username
        /\ p.unified.isAuthor => ~p.unified.isReviewer

(* C16: GitHub: myReviewState is pending if the current user is in the      *)
(* requested-reviewers list, whatever they reviewed before; otherwise it is *)
(* approved or changes_requested after their latest binding state, else     *)
(* commented if they have a commented review or a comment, else pending.    *)
C16_MyReviewState ==
    \A p \in GithubPairs :
        p.unified.myReviewState =
            (IF IsRequested(p.raw, Me) THEN "pending"
             ELSE IF LatestBindingState(p.raw, Me) = "APPROVED" THEN "approved"
             ELSE IF LatestBindingState(p.raw, Me) = "CHANGES_REQUESTED" THEN "changes_requested"
             ELSE IF HasCommented(p.raw, Me) THEN "commented"
             ELSE "pending")

\* I approved and am requested again: my state is pending
C16_Witness ==
    \E p \in GithubPairs :
        /\ IsRequested(p.raw, Me)
        /\ LatestBindingState(p.raw, Me) = "APPROVED"
        /\ p.unified.myReviewState = "pending"

(* C17: GitHub: overallReviewState is approved exactly when reviewDecision  *)
(* is APPROVED; it is changes_requested when reviewDecision is              *)
(* CHANGES_REQUESTED, or is neither and the latest binding state of some    *)
(* author is changes_requested; otherwise it is pending.                    *)
C17_OverallFromDecision ==
    \A p \in GithubPairs :
        /\ (p.unified.overallReviewState = "approved") <=> (p.raw.reviewDecision = "APPROVED")
        /\ p.unified.overallReviewState =
              (IF p.raw.reviewDecision = "APPROVED" THEN "approved"
               ELSE IF p.raw.reviewDecision = "CHANGES_REQUESTED" THEN "changes_requested"
               ELSE IF \E l \in Logins : LatestBindingState(p.raw, l) = "CHANGES_REQUESTED"
                    THEN "changes_requested"
               ELSE "pending")

\* Bob approved, nobody requested changes and the platform has not decided:
\* the pull request is pending with one approval given
C17_Witness ==
    \E p \in GithubPairs :
        /\ p.raw.reviewDecision # "APPROVED"
        /\ LatestBindingState(p.raw, Bob) = "APPROVED"
        /\ p.unified.approvals.given = 1
        /\ p.unified.overallReviewState = "pending"

-----------------------------------------------------------------------------
(* The fields of a raw merge request, read without the adapter              *)

\* the raw merge requests and their unified entities, paired
GitlabPairs ==
    UNION {{[raw |-> GitlabNodes(GitlabResponse("ok"))
                        [LastIndex(GitlabNodes(GitlabResponse("ok")), cycles[c].gl.value[i].uniqueKey)],
             unified |-> cycles[c].gl.value[i]] :
                i \in 1..Len(cycles[c].gl.value)} : c \in GitlabAnswered}

\* the image of the platform's interaction state
ReviewStateImage(glState) ==
    CASE glState = "UNREVIEWED" -> "pending"
      [] glState = "REQUESTED_CHANGES" -> "changes_requested"
      [] glState = "REVIEWED" -> "commented"
      [] glState = "APPROVED" -> "approved"
      [] OTHER -> "pending"

(* C18: GitLab: the reviewers of a unified merge request are the raw        *)
(* reviewers in their order, each with the image of its interaction state   *)
(* (absent or unknown: pending), but approved where that image is pending   *)
(* and the username is in approvedBy; a status that is not pending is the   *)
(* image whatever approvedBy holds.                                         *)
C18_ReviewerStatus ==
    \A p \in GitlabPairs :
        /\ Len(p.unified.reviewers) = Len(p.raw.reviewers)
        /\ \A i \in 1..Len(p.raw.reviewers) :
              LET r == p.raw.reviewers[i]
                  image == ReviewStateImage(r.reviewState)
              IN  /\ p.unified.reviewers[i].username = r.username
                  /\ image # "pending" => p.unified.reviewers[i].status = image
                  /\ image = "pending" =>
                        p.unified.reviewers[i].status =
                            (IF r.username \in Range(p.raw.approvedBy) THEN "approved"
                             ELSE "pending")

\* Bob is unreviewed and among the approvers, so approved; I requested changes
\* and am among the approvers, and my status is changes_requested still
C18_Witness ==
    \E p \in GitlabPairs :
        /\ p.raw.reviewers = <<GitlabReviewer(Me, "REQUESTED_CHANGES"), GitlabReviewer(Bob, "UNREVIEWED")>>
        /\ p.raw.approvedBy = <<Bob, Me>>
        /\ p.unified.reviewers[1].status = "changes_requested"
        /\ p.unified.reviewers[2].status = "approved"

(* C19: GitLab: overallReviewState is changes_requested if the resolved     *)
(* status of some reviewer is changes_requested; otherwise approved if      *)
(* approvalsRequired > 0 and there are at least approvalsRequired distinct  *)
(* approvers; otherwise pending. With approvalsRequired = 0 it is never     *)
(* approved.                                                                *)
C19_GitlabOverall ==
    \A p \in GitlabPairs :
        /\ p.unified.overallReviewState =
              (IF \E i \in 1..Len(p.unified.reviewers) :
                      p.unified.reviewers[i].status = "changes_requested"
               THEN "changes_requested"
               ELSE IF p.raw.approvalsRequired > 0
                       /\ Cardinality(Range(p.raw.approvedBy)) >= p.raw.approvalsRequired
               THEN "approved"
               ELSE "pending")
        /\ p.raw.approvalsRequired = 0 => p.unified.overallReviewState # "approved"

\* two approvers where none is required: the merge request is pending
C19_Witness ==
    \E p \in GitlabPairs :
        /\ p.raw.approvalsRequired = 0
        /\ Cardinality(Range(p.raw.approvedBy)) = 2
        /\ p.unified.overallReviewState = "pending"

\* the discussions of a raw merge request that are threads, and the resolved ones
Threads(mr) == {i \in 1..Len(mr.discussions) : mr.discussions[i].resolvable}
ResolvedThreads(mr) == {i \in Threads(mr) : mr.discussions[i].resolved}

(* C20: GitLab: commentStats.total is the number of discussions with        *)
(* resolvable = true and commentStats.resolved the number of those that are *)
(* resolved; a discussion with resolvable = false counts in neither, and    *)
(* 0 <= resolved <= total.                                                  *)
C20_CommentStats ==
    \A p \in GitlabPairs :
        /\ p.unified.commentStats.total = Cardinality(Threads(p.raw))
        /\ p.unified.commentStats.resolved = Cardinality(ResolvedThreads(p.raw))
        /\ 0 <= p.unified.commentStats.resolved
        /\ p.unified.commentStats.resolved <= p.unified.commentStats.total

\* a system note and a resolved thread: one of one resolved, of two notes
C20_Witness ==
    \E p \in GitlabPairs :
        /\ Cardinality(Threads(p.raw)) < Len(p.raw.discussions)
        /\ p.raw.userNotesCount = 2
        /\ p.unified.commentStats = [total |-> 1, resolved |-> 1]

-----------------------------------------------------------------------------
\* a text holds "warn", in any case
SpellsWarning(text) == includes(toLowerCase(text), s_warn)

\* the image of a raw status that spells no warning
PipelineStatusImage(status) ==
    IF toLowerCase(status) \in {s_success, s_passed} THEN "success"
    ELSE IF toLowerCase(status) \in {s_failed, s_failure} THEN "failed"
    ELSE "pending"

(* C21, as claimed: GitLab: pipelineStatus is warning whenever the detailed *)
(* label holds "warn", whatever the status; otherwise success for           *)
(* success/passed, failed for failed/failure, and pending for               *)
(* running/pending/created/manual and every other or absent status.         *)
C21_LabelDecidesWarning ==
    \A p \in GitlabPairs :
        p.unified.pipelineStatus =
            (IF SpellsWarning(p.raw.headPipeline.label) THEN "warning"
             ELSE PipelineStatusImage(p.raw.headPipeline.status))

(* C21, amended: GitLab: pipelineStatus is warning whenever the detailed    *)
(* label or, failing that, the status itself holds "warn"; otherwise        *)
(* success for success/passed, failed for failed/failure, and pending for   *)
(* running/pending/created/manual and every other or absent status.         *)
C21_LabelOrStatusWarning ==
    \A p \in GitlabPairs :
        p.unified.pipelineStatus =
            (IF SpellsWarning(p.raw.headPipeline.label) THEN "warning"
             ELSE IF SpellsWarning(p.raw.headPipeline.status) THEN "warning"
             ELSE PipelineStatusImage(p.raw.headPipeline.status))

\* a pipeline that passed with warnings is mapped to warning
C21_Witness ==
    \E p \in GitlabPairs :
        /\ p.raw.headPipeline = [status |-> s_SUCCESS, label |-> s_passed_with_warnings]
        /\ p.unified.pipelineStatus = "warning"

-----------------------------------------------------------------------------
(* Overlapping fetch cycles                                                 *)

\* the cycles with an adapter call outstanding
CyclesInFlight == {c \in 1..Len(cycles) : InFlight(cycles[c])}

\* the most recently triggered cycle
LatestCycle == cycles[CHOOSE c \in 1..Len(cycles) : cycles[c].id = started]

\* what a cycle whose calls have all settled displays when it runs alone
ResultOf(cy) ==
    IF \E i \in 1..Len(Promises(cy)) : Promises(cy)[i].status = "rejected" THEN <<>>
    ELSE Combine([i \in 1..Len(Promises(cy)) |-> Promises(cy)[i].value])

(* C22: once every fetch cycle has settled, the displayed collection is the *)
(* result of the most recently triggered cycle: the late result of an older *)
(* cycle never replaces it.                                                 *)
C22_LatestCycleWins ==
    (started > 0 /\ CyclesInFlight = {}) => data = ResultOf(LatestCycle)

(* C23: two fetch cycles are never in flight at the same time.              *)
C23_SingleInFlight == Cardinality(CyclesInFlight) <= 1

(* C29: loading is true whenever an adapter call of some fetch cycle is     *)
(* outstanding.                                                             *)
C29_LoadingWhileInFlight == CyclesInFlight # {} => loading

-----------------------------------------------------------------------------
\* the orders in which the reviews of a pull request can arrive
Arrivals(reviews) ==
    {[i \in 1..Len(reviews) |-> reviews[q[i]]] :
        q \in {f \in [1..Len(reviews) -> 1..Len(reviews)] :
                  \A i, j \in 1..Len(reviews) : i # j => f[i] # f[j]}}

\* an arrival order that keeps reviews submitted at the same time in their order
KeepsTies(reviews, arrival) ==
    \A t \in ReviewTimes :
        SelectSeq(arrival, LAMBDA r : r.submittedAt = t)
            = SelectSeq(reviews, LAMBDA r : r.submittedAt = t)

\* what a unified pull request shows of the binding states
BindingView(u) ==
    [given |-> u.approvals.given,
     mine |-> u.myReviewState,
     overall |-> u.overallReviewState,
     statuses |-> [l \in Logins |-> StatusesOf(u, l)]]

\* the status the replay gives a participant
ReplayedStatus(pr, l) ==
    IF LatestBindingState(pr, l) = "APPROVED" THEN "approved"
    ELSE IF LatestBindingState(pr, l) = "CHANGES_REQUESTED"
         THEN (IF IsRequested(pr, l) THEN "pending" ELSE "changes_requested")
    ELSE IF IsRequested(pr, l) THEN "pending"
    ELSE IF HasCommented(pr, l) THEN "commented"
    ELSE "pending"

\* the binding states are those of the replay in submission order
ReplayedInOrder(p) ==
    /\ p.unified.approvals.given =
          Cardinality({l \in Logins : LatestBindingState(p.raw, l) = "APPROVED"})
    /\ \A l \in Participants(p.raw) : StatusesOf(p.unified, l) = {ReplayedStatus(p.raw, l)}

(* C24, as claimed: GitHub: the binding state of each author is the result  *)
(* of replaying their reviews in submittedAt order (approved and            *)
(* changes_requested overwrite, dismissed clears, commented only marks the  *)
(* author as having commented), and is the same for every order in which    *)
(* the review nodes arrive.                                                 *)
C24_ReplayIgnoresArrival ==
    \A p \in GithubPairs :
        /\ ReplayedInOrder(p)
        /\ \A arrival \in Arrivals(p.raw.reviews) :
              BindingView(mapGithubToUnified([p.raw EXCEPT !.reviews = arrival], Me))
                  = BindingView(p.unified)

(* C24, amended: ... and is the same for every order in which the review    *)
(* nodes arrive that keeps the order of the reviews with an equal           *)
(* submittedAt: those are replayed in the order they arrive.                *)
C24_ReplayKeepsTies ==
    \A p \in GithubPairs :
        /\ ReplayedInOrder(p)
        /\ \A arrival \in Arrivals(p.raw.reviews) :
              KeepsTies(p.raw.reviews, arrival) =>
                  BindingView(mapGithubToUnified([p.raw EXCEPT !.reviews = arrival], Me))
                      = BindingView(p.unified)

\* Bob's approval arrives before the request for changes it was submitted after,
\* and Bob has approved
C24_Witness ==
    \E p \in GithubPairs :
        /\ p.raw.reviews = <<GithubReview(Bob, "APPROVED", 2), GithubReview(Bob, "CHANGES_REQUESTED", 1)>>
        /\ StatusesOf(p.unified, Bob) = {"approved"}
        /\ p.unified.approvals.given = 1

-----------------------------------------------------------------------------
\* the entities either adapter has returned
AdapterEntities == {p.unified : p \in GithubPairs \cup GitlabPairs}

(* C26: every entity an adapter returns has isAuthor = true or isReviewer   *)
(* = true, also one fetched because the user is assigned to it or involved  *)
(* in it, so the classifier drops none for having both flags false.         *)
C26_AuthorOrReviewer ==
    \A u \in AdapterEntities :
        /\ u.isAuthor \/ u.isReviewer
        /\ (u \in Items /\ InNoBucket(u)) => (u.isReviewer /\ ~u.isAuthor)

\* I am an entry of the reviewers of the entity
AmongReviewers(u) == \E i \in 1..Len(u.reviewers) : u.reviewers[i].username = Me

C28_NoMergedRequests ==
    \A c \in GitlabAnswered :
        /\ Len(cycles[c].gl.value)
              = Cardinality({GitlabIdent(mr) : mr \in ReturnedMRs(GitlabResponse("ok"))})
        /\ \A mr \in ReturnedMRs(GitlabResponse("ok")) :
              \E i \in 1..Len(cycles[c].gl.value) :
                  cycles[c].gl.value[i] = mapGitlabToUnified(mr, Me)

-----------------------------------------------------------------------------
\* a step in which a fetch cycle ends: one that was not over is over or forgotten
\* (only settled cycles are forgotten), or one is started with no adapter to call
EndsCycle ==
    \/ \E c \in 1..Len(cycles) :
          /\ ~cycles[c].done
          /\ \A d \in 1..Len(cycles') : cycles'[d].id = cycles[c].id => cycles'[d].done
    \/ started' # started /\ NewCycle.done

\* the cycle with this id is over
CycleOver(id) == \A c \in 1..Len(cycles) : cycles[c].id = id => cycles[c].done

\* the one cycle of a run is over and its calls have settled: the three paths
AlonePaths ==
    \A c \in 1..Len(cycles) :
        AloneAndSettled(cycles[c]) =>
            /\ loading = FALSE
            /\ Promises(cycles[c]) = <<>> => (data = <<>> /\ error = <<>>)
            /\ (\E i \in 1..Len(Promises(cycles[c])) : Promises(cycles[c])[i].status = "rejected")
                  => (error # <<>> /\ data = <<>>)
            /\ (\A i \in 1..Len(Promises(cycles[c])) : Promises(cycles[c])[i].status = "resolved")
                  => (data = ResultOf(cycles[c]) /\ error = <<>>)

(* C30: when the adapter calls settle, every triggered fetch cycle ends,    *)
(* and the step that ends it leaves loading = false; a cycle that runs      *)
(* alone ends with the collection set and no error, or with an error and    *)
(* the collection empty, or (no adapter configured) with neither, and while *)
(* only one cycle was started never are both an error and a non-empty       *)
(* collection displayed; once every call has settled loading is false.      *)
C30_CycleEnds ==
    /\ [][EndsCycle => loading' = FALSE]_vars
    /\ [](AlonePaths /\ (started <= 1 => (error = <<>> \/ data = <<>>)))
    /\ \A id \in 1..MaxCycles : (started >= id) ~> CycleOver(id)
    /\ (started > 0) ~> (CyclesInFlight = {} /\ loading = FALSE)

\* a cycle alone has ended with an error after the GitHub call failed, and the
\* GitLab call has settled after it
C30_Witness ==
    \E c \in 1..Len(cycles) :
        /\ AloneAndSettled(cycles[c])
        /\ cycles[c].gh.status = "rejected" /\ cycles[c].gl.status = "resolved"
        /\ error # <<>> /\ data = <<>> /\ loading = FALSE

====
